---- MODULE Spec2Model ----
(***************************************************************************)
(* hpegl-provider-lib, pkg/token: the token Handler loop, the retrieve     *)
(* adapter built by retrieve.NewTokenRetrieveFunc, and the token exchange  *)
(* of httpclient.Client.GenerateToken (identitytoken / issuertoken over    *)
(* tokenutil.DoRetries).                                                   *)
(*                                                                         *)
(* The Handler and the retrieve adapter are described by README.md and by  *)
(* the design document only; the exchange is translated from the Go code.  *)
(***************************************************************************)
EXTENDS Integers, Sequences, FiniteSets, TLC

(***************************************************************************)
(* Program constants                                                       *)
(***************************************************************************)
\* common.TimeToTokenExpiry, seconds
TimeToTokenExpiry == 60
\* identitytoken.retryLimit / issuertoken.retryLimit
retryLimit == 3

IAMVersionGLCS == "glcs"
IAMVersionGLP == "glp"

StatusOK == 200
StatusBadRequest == 400
StatusUnauthorized == 401
StatusForbidden == 403
StatusTooManyRequests == 429
StatusInternalServerError == 500
StatusBadGateway == 502
\* the sleep of sleepAndDecrementRetries, seconds
RetrySleepSeconds == 5
\* the deadline createContextWithTimeout gives each attempt, seconds
AttemptDeadlineSeconds == 3

(***************************************************************************)
(* Bounds of the model                                                     *)
(***************************************************************************)
\* number of retrieve calls the consumer makes
MaxCalls == 2
\* number of times the clock is advanced
MaxTicks == 1
\* length of the identity-service URLs tried, in characters
MaxURLLen == 3
\* number of service registrations handed to NewProviderFunc
MaxServices == 2

(***************************************************************************)
(* Values                                                                  *)
(***************************************************************************)
\* an error value: kind "nil" is Go's nil error
MkErr(kind, code, text) == [kind |-> kind, code |-> code, text |-> text]
NoErr == MkErr("nil", 0, "")

\* common.Result
Result(tok, err) == [Token |-> tok, Err |-> err]
NoResult == Result("", NoErr)

\* bodies of a 200 response: JSON with an access_token, JSON without one,
\* JSON with an empty one, bytes that are not JSON, and a body whose read fails
Body(json, has, tok, life) ==
    [json |-> json, hasToken |-> has, access_token |-> tok, expires_in |-> life,
     text |-> "", readable |-> TRUE]
NoBody == Body(FALSE, FALSE, "", 0)
BrokenBody == [NoBody EXCEPT !.readable = FALSE]
\* the body of an error response: plain text
ErrorText == [NoBody EXCEPT !.text = "bad things"]

ExpiresInValues ==
    {TimeToTokenExpiry - 1, TimeToTokenExpiry, TimeToTokenExpiry + 1}

Bodies200 ==
    {Body(TRUE, TRUE, "tokA", l) : l \in ExpiresInValues}
      \cup {Body(TRUE, TRUE, "tokB", TimeToTokenExpiry + 1),
            Body(TRUE, TRUE, "", TimeToTokenExpiry + 1),
            Body(TRUE, FALSE, "", 0),
            NoBody,
            BrokenBody}

Response(status, body) == [StatusCode |-> status, Body |-> body]
\* the nil *http.Response
NilResp == Response(0, NoBody)

OtherStatuses == {StatusBadRequest, StatusUnauthorized, StatusForbidden, 418,
                  StatusTooManyRequests, StatusInternalServerError,
                  StatusBadGateway, 503}

Responses ==
    {Response(StatusOK, b) : b \in Bodies200}
      \cup {Response(s, ErrorText) : s \in OtherStatuses}
      \cup {Response(StatusBadRequest, BrokenBody)}

\* responses that arrive just as the attempt's deadline fires
LateResponses ==
    {Response(StatusOK, Body(TRUE, TRUE, "tokA", TimeToTokenExpiry + 1)),
     Response(StatusInternalServerError, ErrorText)}

\* what one call of the closure passed to DoRetries gives back, and what
\* req.Context().Err() answers when DoRetries asks right after it:
\*   req = FALSE: the request could not be built (req is nil)
AttemptOutcome(req, ctxErr, err, resp) ==
    [req |-> req, ctxErr |-> ctxErr, err |-> err, resp |-> resp]

AttemptOutcomes ==
    {AttemptOutcome(FALSE, "nil", MkErr("BuildRequest", 0, ""), NilResp)}
      \cup {AttemptOutcome(TRUE, "nil", MkErr("Transport", 0, ""), NilResp)}
      \cup {AttemptOutcome(TRUE, "DeadlineExceeded",
                           MkErr("DeadlineExceeded", 0, ""), NilResp)}
      \cup {AttemptOutcome(TRUE, "nil", NoErr, r) : r \in Responses}
      \cup {AttemptOutcome(TRUE, "DeadlineExceeded", NoErr, r) : r \in LateResponses}

(***************************************************************************)
(* tokenutil                                                               *)
(***************************************************************************)
\* variant: every 5xx status is retried
isStatusRetryable5xx(statusCode) ==
    statusCode \in 500..599 \/ statusCode = StatusTooManyRequests

\* variant: only 500 is retried
isStatusRetryableOnly500(statusCode) == statusCode = StatusInternalServerError

isStatusRetryable(statusCode) ==
    statusCode = StatusInternalServerError
      \/ statusCode = StatusTooManyRequests
      \/ statusCode = StatusBadGateway

\* variant: 401 and 403 are taken for each other
ManageHTTPErrorCodesSwapped(resp, clientID) ==
    CASE resp.StatusCode = StatusOK -> NoErr
      [] resp.StatusCode = StatusBadRequest ->
            IF ~resp.Body.readable THEN MkErr("ReadBody", 0, "")
            ELSE MkErr("BadRequest", StatusBadRequest, resp.Body.text)
      [] resp.StatusCode = StatusUnauthorized ->
            MkErr("Forbidden", StatusForbidden, clientID)
      [] resp.StatusCode = StatusForbidden ->
            MkErr("Unauthorized", StatusUnauthorized, clientID)
      [] OTHER -> MkErr("InternalError", resp.StatusCode, "Unexpected status code")

ManageHTTPErrorCodes(resp, clientID) ==
    CASE resp.StatusCode = StatusOK -> NoErr
      [] resp.StatusCode = StatusBadRequest ->
            IF ~resp.Body.readable THEN MkErr("ReadBody", 0, "")
            ELSE MkErr("BadRequest", StatusBadRequest, resp.Body.text)
      [] resp.StatusCode = StatusForbidden ->
            MkErr("Forbidden", StatusForbidden, clientID)
      [] resp.StatusCode = StatusUnauthorized ->
            MkErr("Unauthorized", StatusUnauthorized, clientID)
      [] OTHER -> MkErr("InternalError", resp.StatusCode, "Unexpected status code")

ErrRetryLimitExceeded == MkErr("InternalError", 0, "Retry limit exceeded")

\* variant: bytes that are not JSON decode to the zero TokenResponse
UnmarshalLenient(body) ==
    [err |-> NoErr,
     AccessToken |-> IF body.json /\ body.hasToken THEN body.access_token ELSE "",
     ExpiresIn |-> body.expires_in]

\* json.Unmarshal(body, &token) followed by token.AccessToken
Unmarshal(body) ==
    IF ~body.json
      THEN [err |-> MkErr("Decode", 0, ""), AccessToken |-> "", ExpiresIn |-> 0]
      ELSE [err |-> NoErr,
            AccessToken |-> IF body.hasToken THEN body.access_token ELSE "",
            ExpiresIn |-> body.expires_in]

\* variant: a retry leaves the budget as it is
sleepWithoutDecrement(r) == r

\* variant: a retry costs two units of the budget
sleepAndDecrementTwice(r) == IF r > 1 THEN r - 2 ELSE 0

\* sleepAndDecrementRetries: the 5 second sleep is counted by the caller
sleepAndDecrementRetries(r) == r - 1

\* variant: the cancel function of the last attempt is left out
executeCancelFuncsButLast(fs) == [i \in DOMAIN fs |-> i < Len(fs)]

\* executeCancelFuncs: every cancel function in the slice is invoked
\* (an entry of the slice is TRUE once its cancel function has been invoked)
executeCancelFuncs(fs) == [i \in DOMAIN fs |-> TRUE]

\* variant: an elapsed deadline is an error like any other
DoRetriesDecisionDeadlineReturns(o) ==
    IF o.err # NoErr THEN "return"
    ELSE IF ~isStatusRetryable(o.resp.StatusCode) THEN "return"
    ELSE "retry"

\* variant: every failed call is tried again
DoRetriesDecisionRetryErrors(o) ==
    IF o.req /\ o.ctxErr = "DeadlineExceeded" THEN "retry"
    ELSE IF o.err # NoErr THEN "retry"
    ELSE IF ~isStatusRetryable(o.resp.StatusCode) THEN "return"
    ELSE "retry"

\* the decision DoRetries takes on what one call gave back:
\* "retry" (sleepAndDecrementRetries, continue), or "return"
DoRetriesDecision(o) ==
    IF o.req /\ o.ctxErr = "DeadlineExceeded" THEN "retry"
    ELSE IF o.err # NoErr THEN "return"
    ELSE IF ~isStatusRetryable(o.resp.StatusCode) THEN "return"
    ELSE "retry"

(***************************************************************************)
(* identitytoken.GenerateToken / issuertoken.GenerateToken, after          *)
(* DoRetries has returned (resp, err)                                      *)
(***************************************************************************)
\* variant: the error of ManageHTTPErrorCodes is not returned
GenerateTokenSwallowStatus(resp, err, clientID) ==
    IF err # NoErr THEN Result("", err)
    ELSE IF ManageHTTPErrorCodes(resp, clientID) # NoErr THEN Result("", NoErr)
    ELSE IF ~resp.Body.readable THEN Result("", MkErr("ReadBody", 0, ""))
    ELSE LET u == Unmarshal(resp.Body) IN
         IF u.err # NoErr THEN Result("", u.err)
         ELSE Result(u.AccessToken, NoErr)

GenerateTokenResult(resp, err, clientID) ==
    IF err # NoErr THEN Result("", err)
    ELSE LET e == ManageHTTPErrorCodes(resp, clientID) IN
         IF e # NoErr THEN Result("", e)
         ELSE IF ~resp.Body.readable THEN Result("", MkErr("ReadBody", 0, ""))
         ELSE LET u == Unmarshal(resp.Body) IN
              IF u.err # NoErr THEN Result("", u.err)
              ELSE Result(u.AccessToken, NoErr)

\* variant: an unknown IAM version is let through
generateParamsAndURLErrNever(iamVersion) == NoErr

\* issuertoken.generateParamsAndURL: the error it returns
ErrInvalidIAMVersion == MkErr("Config", 0, "invalid IAM version")
generateParamsAndURLErr(iamVersion) ==
    IF iamVersion = IAMVersionGLCS \/ iamVersion = IAMVersionGLP
      THEN NoErr
      ELSE ErrInvalidIAMVersion

(***************************************************************************)
(* httpclient.Client.GenerateToken: which way a call goes                  *)
(***************************************************************************)
HasPassedInToken(c) == c.passedInToken # ""

\* variant: the IAM version chooses between the two exchanges
ClientRouteByVersion(c) ==
    IF HasPassedInToken(c) THEN "passedInToken"
    ELSE IF c.iamVersion = IAMVersionGLCS THEN "identitytoken" ELSE "issuertoken"

\* variant: the vended-service-client test comes before the passed-in token test
ClientRouteVendedFirst(c) ==
    IF c.vendedServiceClient THEN "issuertoken"
    ELSE IF HasPassedInToken(c) THEN "passedInToken"
    ELSE "identitytoken"

ClientRoute(c) ==
    IF ~HasPassedInToken(c)
      THEN IF c.vendedServiceClient THEN "issuertoken" ELSE "identitytoken"
      ELSE "passedInToken"

(***************************************************************************)
(* httpclient.New and the request URLs.  A URL is a sequence of characters *)
(***************************************************************************)
Urls == UNION {[1..n -> {"h", "/"}] : n \in 0..MaxURLLen}

\* variant: strings.TrimSuffix, one slash at most
TrimSuffixOnce(u) ==
    IF Len(u) > 0 /\ u[Len(u)] = "/" THEN SubSeq(u, 1, Len(u) - 1) ELSE u

\* strings.TrimRight(identityServiceURL, "/")
RECURSIVE TrimRight(_)
TrimRight(u) ==
    IF Len(u) > 0 /\ u[Len(u)] = "/" THEN TrimRight(SubSeq(u, 1, Len(u) - 1)) ELSE u

\* httpclient.New: the Client it returns
New(identityServiceURL, iamInsecure, vendedServiceClient, passedInToken) ==
    [passedInToken |-> passedInToken,
     identityServiceURL |-> TrimRight(identityServiceURL),
     iamInsecure |-> iamInsecure,
     vendedServiceClient |-> vendedServiceClient]

V1Token == <<"/", "v", "1", "/", "t", "o", "k", "e", "n">>

\* identitytoken.GenerateToken: fmt.Sprintf("%s/v1/token", identityServiceURL)
IdentityTokenURL(identityServiceURL) == identityServiceURL \o V1Token

(***************************************************************************)
(* issuertoken.generateParamsAndURL: url.Values as a set of <<key, value>> *)
(***************************************************************************)
CommonParams(clientID, clientSecret) ==
    {<<"client_id", clientID>>, <<"client_secret", clientSecret>>,
     <<"grant_type", "client_credentials">>}

\* variant: the scope is added for every IAM version
generateParamsAndURLScopeAlways(clientID, clientSecret, identityServiceURL, iamVersion) ==
    CASE iamVersion = IAMVersionGLCS ->
           [params |-> CommonParams(clientID, clientSecret) \cup {<<"scope", "hpe-tenant">>},
            url |-> identityServiceURL \o V1Token, err |-> NoErr]
      [] iamVersion = IAMVersionGLP ->
           [params |-> CommonParams(clientID, clientSecret) \cup {<<"scope", "hpe-tenant">>},
            url |-> identityServiceURL, err |-> NoErr]
      [] OTHER ->
           [params |-> {}, url |-> <<>>, err |-> MkErr("Config", 0, "invalid IAM version")]

generateParamsAndURL(clientID, clientSecret, identityServiceURL, iamVersion) ==
    CASE iamVersion = IAMVersionGLCS ->
           [params |-> CommonParams(clientID, clientSecret) \cup {<<"scope", "hpe-tenant">>},
            url |-> identityServiceURL \o V1Token, err |-> NoErr]
      [] iamVersion = IAMVersionGLP ->
           [params |-> CommonParams(clientID, clientSecret),
            url |-> identityServiceURL, err |-> NoErr]
      [] OTHER ->
           [params |-> {}, url |-> <<>>, err |-> MkErr("Config", 0, "invalid IAM version")]

\* the Content-Type of the request each exchange builds
WireProtocol(route) ==
    CASE route = "identitytoken" -> "application/json"
      [] route = "issuertoken" -> "application/x-www-form-urlencoded"
      [] OTHER -> "none"

(***************************************************************************)
(* provider.ValidateIAMVersion: the input is an interface{} value          *)
(***************************************************************************)
Value(type, s) == [type |-> type, s |-> s]

VersionStrings == {"glcs", "glp", "GLCS", "", "glcs ", "invalid"}

VersionInputs ==
    {Value("string", v) : v \in VersionStrings}
      \cup {Value("int", "0"), Value("nil", ""), Value("bytes", "glcs")}

\* variant: the list was not updated when "glp" was added
iamVersionListOnlyGLCS == <<IAMVersionGLCS>>

iamVersionList == <<IAMVersionGLCS, IAMVersionGLP>>

\* variant: a value that is not a string passes
ValidateIAMVersionStringsOnly(v) ==
    IF v.type # "string" THEN [warnings |-> <<>>, errors |-> <<>>]
    ELSE IF \E i \in DOMAIN iamVersionList : iamVersionList[i] = v.s
      THEN [warnings |-> <<>>, errors |-> <<>>]
      ELSE [warnings |-> <<>>, errors |-> <<"IAM version must be one of">>]

ValidateIAMVersion(v) ==
    IF v.type # "string"
      THEN [warnings |-> <<>>, errors |-> <<"IAM version must be a string">>]
    ELSE IF \E i \in DOMAIN iamVersionList : iamVersionList[i] = v.s
      THEN [warnings |-> <<>>, errors |-> <<>>]
      ELSE [warnings |-> <<>>, errors |-> <<"IAM version must be one of">>]

(***************************************************************************)
(* tokenutil.DecodeAccessToken.  A raw token is described by what          *)
(* jose.ParseSigned, parseJWT and json.Unmarshal make of it:               *)
(*   form "garbage": not a JWS; "compact": three base64url parts;          *)
(*   "compactSpaced": a compact JWS with white space in its payload part   *)
(*   (ParseSigned strips white space, parseJWT does not);                  *)
(*   "json": a JWS in JSON serialization (no compact parts)                *)
(*   payload "claims": a JSON object fitting Token; "notJSON": other bytes;*)
(*   "wrongTypes": a JSON object with a field of the wrong type            *)
(***************************************************************************)
RawTokens ==
    [form : {"garbage", "compact", "compactSpaced", "json"},
     payload : {"claims", "notJSON", "wrongTypes"},
     uid : {"", "u1"}, cid : {"", "c1"}, sub : {"x"}]

\* jose.ParseSigned(rawToken): does it return an error
ParseSignedFails(raw) == raw.form = "garbage"

\* parseJWT(rawToken): does it return an error
parseJWTFails(raw) == raw.form # "compact"

\* what a call returns to its caller, or that the process exits in it
Returned(value, e) == [kind |-> "return", value |-> value, err |-> e]
ProcessExit == [kind |-> "exit", value |-> "", err |-> NoErr]

DecodeAccessToken(raw) ==
    IF ParseSignedFails(raw)
      THEN Returned("", MkErr("Decode", 0, "oidc: malformed jwt"))
    ELSE IF parseJWTFails(raw) THEN ProcessExit
    ELSE IF raw.payload # "claims" THEN ProcessExit
    ELSE IF raw.uid # "" THEN Returned(<<"users/", raw.uid>>, NoErr)
    ELSE IF raw.cid # "" THEN Returned(<<"clients/", raw.sub>>, NoErr)
    ELSE Returned(<<"users/", raw.sub>>, NoErr)

(***************************************************************************)
(* provider.NewProviderFunc: the provider function it builds, called once  *)
(***************************************************************************)
\* provider.Schema(): the keys it defines
SchemaKeys ==
    {"iam_token", "iam_service_url", "iam_version", "api_vended_service_client",
     "tenant_id", "user_id", "user_secret"}

\* a registration.ServiceRegistration: Name(), ProviderSchemaEntry() # nil,
\* the keys of SupportedDataSources() and of SupportedResources()
Services ==
    [name : {"s1", "s2", "iam_token"},
     entry : BOOLEAN,
     ds : SUBSET {"k1"},
     res : SUBSET {"k1", "k2"}]

Registrations == UNION {[1..n -> Services] : n \in 0..MaxServices}

Panic(what, key, service) ==
    [panic |-> TRUE, what |-> what, key |-> key, service |-> service,
     resources |-> {}, dataSources |-> {}, schema |-> {}]

Provider(resources, dataSources, schema) ==
    [panic |-> FALSE, what |-> "", key |-> "", service |-> "",
     resources |-> resources, dataSources |-> dataSources, schema |-> schema]

\* variant: a repeated data-source name goes unnoticed
ServicePanicsIgnoreDataSources(service, dataSources, resources, providerSchema) ==
    IF service.res \cap resources # {}
      THEN {Panic("resource name", k, service.name) : k \in service.res \cap resources}
    ELSE IF service.entry /\ service.name \in providerSchema
      THEN {Panic("service name", service.name, service.name)}
    ELSE {}

\* variant: the service name is looked at first
ServicePanicsNameFirst(service, dataSources, resources, providerSchema) ==
    IF service.entry /\ service.name \in providerSchema
      THEN {Panic("service name", service.name, service.name)}
    ELSE IF service.ds \cap dataSources # {}
      THEN {Panic("data-source name", k, service.name) : k \in service.ds \cap dataSources}
    ELSE IF service.res \cap resources # {}
      THEN {Panic("resource name", k, service.name) : k \in service.res \cap resources}
    ELSE {}

\* one round of the loop over reg: the panics it can end in (none: it goes
\* on). A map is ranged over in an order Go does not fix, so any repeated key
\* can be the one met first.
ServicePanics(service, dataSources, resources, providerSchema) ==
    IF service.ds \cap dataSources # {}
      THEN {Panic("data-source name", k, service.name) : k \in service.ds \cap dataSources}
    ELSE IF service.res \cap resources # {}
      THEN {Panic("resource name", k, service.name) : k \in service.res \cap resources}
    ELSE IF service.entry /\ service.name \in providerSchema
      THEN {Panic("service name", service.name, service.name)}
    ELSE {}

\* the loop from reg[i] on: the outcomes a call of the provider function can have
RECURSIVE ProviderFuncFrom(_, _, _, _, _)
ProviderFuncFrom(reg, i, dataSources, resources, providerSchema) ==
    IF i > Len(reg) THEN {Provider(resources, dataSources, providerSchema)}
    ELSE LET service == reg[i]
             panics == ServicePanics(service, dataSources, resources, providerSchema)
         IN IF panics # {} THEN panics
            ELSE ProviderFuncFrom(reg, i + 1,
                                  dataSources \cup service.ds,
                                  resources \cup service.res,
                                  IF service.entry
                                    THEN providerSchema \cup {service.name}
                                    ELSE providerSchema)

\* variant: the provider schema starts empty, not from Schema()
NewProviderFuncFromEmpty(reg) == ProviderFuncFrom(reg, 1, {}, {}, {})

NewProviderFunc(reg) == ProviderFuncFrom(reg, 1, {}, {}, SchemaKeys)

(***************************************************************************)
(* provider.ProviderForMux.  Here a map that is nil and a map that is      *)
(* empty differ: dsNil / resNil say that SupportedDataSources() /          *)
(* SupportedResources() is nil                                             *)
(***************************************************************************)
\* a map[string]*schema.Resource: nil, empty, or with the key k1
MuxMaps ==
    {[nil |-> TRUE, keys |-> {}], [nil |-> FALSE, keys |-> {}],
     [nil |-> FALSE, keys |-> {"k1"}]}

MuxServices ==
    {[name |-> n, entry |-> e,
      ds |-> d.keys, dsNil |-> d.nil,
      res |-> r.keys, resNil |-> r.nil] :
        n \in {"s1", "s2", "iam_token"}, e \in BOOLEAN, d \in MuxMaps, r \in MuxMaps}

MuxRegistrations == UNION {[1..n -> MuxServices] : n \in 0..MaxServices}

\* the same list as the loops of NewProviderFunc see it: ranging over a nil
\* map is ranging over an empty one
AsRegistration(reg) ==
    [i \in DOMAIN reg |->
        [name |-> reg[i].name, entry |-> reg[i].entry,
         ds |-> reg[i].ds, res |-> reg[i].res]]

\* the loop of generateProviderSchema from reg[i] on: the panic it ends in,
\* or the keys of the schema it returns
RECURSIVE generateProviderSchemaFrom(_, _, _)
generateProviderSchemaFrom(reg, i, providerSchema) ==
    IF i > Len(reg) THEN Provider({}, {}, providerSchema)
    ELSE IF reg[i].entry
      THEN IF reg[i].name \in providerSchema
             THEN Panic("service name", reg[i].name, reg[i].name)
             ELSE generateProviderSchemaFrom(reg, i + 1, providerSchema \cup {reg[i].name})
      ELSE generateProviderSchemaFrom(reg, i + 1, providerSchema)

\* variant: the schema is built from nothing, not from Schema()
generateProviderSchemaFromEmpty(reg) == generateProviderSchemaFrom(reg, 1, {})

generateProviderSchema(reg) == generateProviderSchemaFrom(reg, 1, SchemaKeys)

\* generateProvider: the schema.Provider behind the server it returns
generateProvider(service, providerSchema) ==
    [service |-> service.name,
     resources |-> service.res, resNil |-> service.resNil,
     dataSources |-> service.ds, dsNil |-> service.dsNil,
     schema |-> providerSchema]

\* variant: a service needs a non-empty map to get a provider
HasProviderNonEmpty(service) == service.res # {} \/ service.ds # {}

\* ProviderForMux: "Only create a provider if it has resources or data sources"
HasProvider(service) == ~service.resNil \/ ~service.dsNil

\* ProviderForMux: the panic it ends in, or the list it returns
ProviderForMux(reg) ==
    LET s == generateProviderSchema(reg) IN
    IF s.panic THEN [panic |-> TRUE, what |-> s.what, key |-> s.key, providers |-> <<>>]
    ELSE LET kept == SelectSeq(reg, HasProvider)
         IN [panic |-> FALSE, what |-> "", key |-> "",
             providers |-> [i \in DOMAIN kept |-> generateProvider(kept[i], s.schema)]]

(***************************************************************************)
(* GenerateToken and DoRetries under the caller's context, with the bodies *)
(* of the responses received                                               *)
(***************************************************************************)
\* the caller's ctx: live, cancelled, or past its own deadline
CallerCtxStates == {"live", "cancelled", "pastDeadline"}

\* what one call gives back under the caller's context: the sub-context of
\* createContextWithTimeout is a child of ctx, so it is ended as soon as ctx
\* is, with ctx's error, and httpClient.Do fails with that error
AttemptOutcomesUnder(c) ==
    CASE c = "live" -> AttemptOutcomes
      [] c = "cancelled" ->
           {AttemptOutcome(FALSE, "nil", MkErr("BuildRequest", 0, ""), NilResp),
            AttemptOutcome(TRUE, "Canceled", MkErr("Canceled", 0, ""), NilResp)}
      [] c = "pastDeadline" ->
           {AttemptOutcome(FALSE, "nil", MkErr("BuildRequest", 0, ""), NilResp),
            AttemptOutcome(TRUE, "DeadlineExceeded",
                           MkErr("DeadlineExceeded", 0, ""), NilResp)}

\* the loop of DoRetries and what GenerateToken holds while it runs; bodies
\* has one entry per response received, TRUE once its Body is closed
ExchangeState(c, r, a, sl, da, ds, bodies, rsp, e) ==
    [kind |-> "running", ctx |-> c, retries |-> r, attempts |-> a, sleeps |-> sl,
     deadAttempts |-> da, deadSleeps |-> ds, bodies |-> bodies, resp |-> rsp, err |-> e]

\* a response received: its body is open
ReceiveBody(bodies, rsp) == IF rsp = NilResp THEN bodies ELSE Append(bodies, FALSE)

\* GenerateToken after DoRetries has returned (resp, err): it returns at once
\* on an error, else "defer resp.Body.Close()" closes the body of resp, the
\* response received last
CloseDeferred(bodies, e) ==
    IF e # NoErr \/ bodies = <<>> THEN bodies
    ELSE [bodies EXCEPT ![Len(bodies)] = TRUE]

(***************************************************************************)
(* The calls of the library functions that are tried                       *)
(***************************************************************************)
Call(fn, arg) == [fn |-> fn, arg |-> arg]
NoCall == Call("none", <<>>)
NoRet == [kind |-> "none"]

LibCalls ==
    {
    {Call("New", [url |-> u, vendedServiceClient |-> v, passedInToken |-> t]) :
        u \in Urls, v \in BOOLEAN, t \in {"", "static"}},
    {Call("generateParamsAndURL",
                 [clientID |-> c, clientSecret |-> "s1", url |-> u, iamVersion |-> iv]) :
              c \in {"c1", "c2"}, u \in Urls, iv \in VersionStrings},
    {Call("ValidateIAMVersion", v) : v \in VersionInputs},
    {Call("DecodeAccessToken", r) : r \in RawTokens},
    {Call("NewProviderFunc", r) : r \in Registrations},
    {Call("ProviderForMux", r) : r \in MuxRegistrations},
    {Call("GenerateToken", [ctx |-> c]) : c \in CallerCtxStates}}

(***************************************************************************)
(* State                                                                   *)
(***************************************************************************)
VARIABLES
    cfg,        \* the configuration the Handler and its Client were built from
    hPc,        \* Handler loop: "check", "exchange", "select", "exited"
    token,      \* Handler: the cached token string ("" when none)
    expiry,     \* Handler: the cached token's expiry instant
    result,     \* Handler: the Result it is offering on resultCh
    retries,    \* DoRetries: the remaining budget
    attempts,   \* HTTP attempts made by the running exchange
    sleeps,     \* 5 second sleeps taken by the running exchange
    resp,       \* DoRetries: the response of the last attempt
    err,        \* DoRetries: the error of the last attempt, then the error
                \* DoRetries returned
    timeouts,   \* attempts whose deadline had elapsed, counted while
                \* DoRetries is running
    cancelFuncs, \* GenerateToken: the slice of per-attempt cancel functions
    rPc,        \* retrieve: "idle", "waiting"
    ctx,        \* the context of the running retrieve call: "live", "cancelled"
                \* ("none" between calls)
    retKind,    \* how the last retrieve call returned: "none", "result", "cancelled"
    calls,      \* retrieve calls made so far
    now,        \* the clock, seconds
    ticks,      \* how often the clock was advanced
    produced,   \* Results the Handler has built
    delivered,  \* Results received from resultCh
    passExch,   \* calls of Client.GenerateToken since the last delivery
    exitRecv,   \* the Handler has received a value on exitCh
    lastTok,    \* the token string of the last delivery
    lastErr,    \* the last delivery carried an error
    lastExp,    \* the cached expiry at the last delivery (0: nothing cached)
    preCancelled, \* the running retrieve call began with a cancelled context
    libCall,    \* the library function called outside the Handler, and its input
    libRet      \* what that call gave back

hVars == <<hPc, token, expiry, result>>
xVars == <<retries, attempts, sleeps, resp, err, timeouts, cancelFuncs>>
rVars == <<rPc, ctx, retKind, calls, preCancelled>>
tVars == <<now, ticks>>
histVars == <<produced, delivered, passExch, exitRecv, lastTok, lastErr, lastExp>>
libVars == <<libCall, libRet>>
vars == <<cfg, hVars, xVars, rVars, tVars, histVars, libVars>>

Configs ==
    [passedInToken : {"", "static"},
     vendedServiceClient : BOOLEAN,
     iamVersion : {IAMVersionGLCS, IAMVersionGLP, "invalid"},
     clientID : {"c1", "c2"}]

Init ==
    /\ cfg \in Configs
    /\ hPc = "check"
    /\ token = ""
    /\ expiry = 0
    /\ result = NoResult
    /\ retries = 0
    /\ attempts = 0
    /\ sleeps = 0
    /\ resp = NilResp
    /\ err = NoErr
    /\ timeouts = 0
    /\ cancelFuncs = <<>>
    /\ rPc = "idle"
    /\ ctx = "none"
    /\ retKind = "none"
    /\ calls = 0
    /\ now = 0
    /\ ticks = 0
    /\ produced = 0
    /\ delivered = 0
    /\ passExch = 0
    /\ exitRecv = FALSE
    /\ lastTok = ""
    /\ lastErr = FALSE
    /\ lastExp = 0
    /\ preCancelled = FALSE
    /\ libCall = NoCall
    /\ libRet = NoRet

(***************************************************************************)
(* The Handler loop                                                        *)
(***************************************************************************)
\* step 1 of the loop: no cached token, or one that expires within
\* TimeToTokenExpiry seconds
\* variant: a token exactly TimeToTokenExpiry seconds from its expiry is kept
TokenExpiringStrict(tok, exp, t) == tok = "" \/ exp - t < TimeToTokenExpiry

TokenExpiring(tok, exp, t) == tok = "" \/ exp - t <= TimeToTokenExpiry

\* variant: the loop goes round without waiting for its send to complete
AtLoopTopOrOffering == hPc \in {"check", "select"}

\* the loop is at its top: nothing is being offered on resultCh
AtLoopTop == hPc = "check"

\* variant: the loop continues on receiving from exitCh
PcAfterExitContinue == "check"

\* where the loop goes on receiving from exitCh
PcAfterExit == "exited"

\* variant: the exit signal reaches the Handler wherever its loop is
WatchingExitAlways == hPc # "exited"

\* the Handler is parked in its select, so a send on exitCh finds a receiver
WatchingExit == hPc = "select"

\* variant: a failed exchange is not published, the loop tries again
HandlerRetryOnError(r, life) ==
    IF r.Err # NoErr
      THEN /\ hPc' = "check"
           /\ UNCHANGED <<token, expiry, result, produced>>
      ELSE /\ result' = r
           /\ IF ~HasPassedInToken(cfg)
                THEN token' = r.Token /\ expiry' = now + life
                ELSE UNCHANGED <<token, expiry>>
           /\ hPc' = "select"
           /\ produced' = produced + 1

\* the Handler takes what Client.GenerateToken returned: a new token is
\* cached with its expiry, an error or a passed-in token leaves the cache alone
HandlerPublish(r, life) ==
    /\ result' = r
    /\ IF r.Err = NoErr /\ ~HasPassedInToken(cfg)
         THEN token' = r.Token /\ expiry' = now + life
         ELSE UNCHANGED <<token, expiry>>
    /\ hPc' = "select"
    /\ produced' = produced + 1

\* the cached token is good: offer it
ServeCached ==
    /\ AtLoopTop
    /\ ~TokenExpiring(token, expiry, now)
    /\ result' = Result(token, NoErr)
    /\ hPc' = "select"
    /\ produced' = produced + 1
    /\ UNCHANGED <<cfg, libVars, token, expiry, xVars, rVars, tVars,
                   delivered, passExch, exitRecv, lastTok, lastErr, lastExp>>

\* Client.GenerateToken with a passed-in token: returned as it is
ExchangePassedIn ==
    /\ AtLoopTop
    /\ TokenExpiring(token, expiry, now)
    /\ ClientRoute(cfg) = "passedInToken"
    /\ passExch' = passExch + 1
    /\ HandlerPublish(Result(cfg.passedInToken, NoErr), 0)
    /\ UNCHANGED <<cfg, libVars, xVars, rVars, tVars, delivered, exitRecv, lastTok, lastErr, lastExp>>

\* issuertoken.GenerateToken: generateParamsAndURL fails
ExchangeInvalidVersion ==
    /\ AtLoopTop
    /\ TokenExpiring(token, expiry, now)
    /\ ClientRoute(cfg) = "issuertoken"
    /\ generateParamsAndURLErr(cfg.iamVersion) # NoErr
    /\ passExch' = passExch + 1
    /\ HandlerPublish(Result("", generateParamsAndURLErr(cfg.iamVersion)), 0)
    /\ UNCHANGED <<cfg, libVars, xVars, rVars, tVars, delivered, exitRecv, lastTok, lastErr, lastExp>>

\* GenerateToken enters DoRetries with the budget retryLimit
ExchangeBegin ==
    /\ AtLoopTop
    /\ TokenExpiring(token, expiry, now)
    /\ \/ ClientRoute(cfg) = "identitytoken"
       \/ /\ ClientRoute(cfg) = "issuertoken"
          /\ generateParamsAndURLErr(cfg.iamVersion) = NoErr
    /\ passExch' = passExch + 1
    /\ hPc' = "exchange"
    /\ retries' = retryLimit
    /\ attempts' = 0
    /\ sleeps' = 0
    /\ resp' = NilResp
    /\ err' = NoErr
    /\ timeouts' = 0
    /\ cancelFuncs' = <<>>
    /\ UNCHANGED <<cfg, libVars, token, expiry, result, rVars, tVars,
                   produced, delivered, exitRecv, lastTok, lastErr, lastExp>>

\* DoRetries: the budget is used up
DoRetriesExhausted ==
    /\ hPc = "exchange"
    /\ retries = 0
    /\ err' = ErrRetryLimitExceeded
    /\ cancelFuncs' = executeCancelFuncs(cancelFuncs)
    /\ HandlerPublish(GenerateTokenResult(resp, ErrRetryLimitExceeded, cfg.clientID), 0)
    /\ timeouts' = 0
    /\ UNCHANGED <<cfg, libVars, retries, attempts, sleeps, resp, rVars, tVars,
                   delivered, passExch, exitRecv, lastTok, lastErr, lastExp>>

\* DoRetries: one attempt that ends in sleepAndDecrementRetries
AttemptRetry ==
    /\ hPc = "exchange"
    /\ retries # 0
    /\ \E o \in AttemptOutcomes :
          /\ DoRetriesDecision(o) = "retry"
          /\ resp' = o.resp
          /\ err' = o.err
          /\ timeouts' = IF o.ctxErr = "DeadlineExceeded"
                           THEN timeouts + 1 ELSE timeouts
    /\ cancelFuncs' = Append(cancelFuncs, FALSE)
    /\ attempts' = attempts + 1
    /\ sleeps' = sleeps + 1
    /\ retries' = sleepAndDecrementRetries(retries)
    /\ UNCHANGED <<cfg, libVars, hVars, rVars, tVars, histVars>>

\* DoRetries: one attempt after which DoRetries returns
AttemptReturn ==
    /\ hPc = "exchange"
    /\ retries # 0
    /\ \E o \in AttemptOutcomes :
          /\ DoRetriesDecision(o) = "return"
          /\ resp' = o.resp
          /\ err' = o.err
          /\ HandlerPublish(GenerateTokenResult(o.resp, o.err, cfg.clientID),
                            Unmarshal(o.resp.Body).ExpiresIn)
    /\ attempts' = attempts + 1
    /\ cancelFuncs' = executeCancelFuncs(Append(cancelFuncs, FALSE))
    /\ timeouts' = 0
    /\ UNCHANGED <<cfg, libVars, retries, sleeps, rVars, tVars, delivered,
                   passExch, exitRecv, lastTok, lastErr, lastExp>>

(***************************************************************************)
(* The retrieve adapter                                                    *)
(***************************************************************************)
\* the consumer calls retrieve(ctx); ctx may be cancelled already
RetrieveCall ==
    /\ rPc = "idle"
    /\ calls < MaxCalls
    /\ calls' = calls + 1
    /\ rPc' = "waiting"
    /\ \E c \in {"live", "cancelled"} :
          /\ ctx' = c
          /\ preCancelled' = (c = "cancelled")
    /\ UNCHANGED <<cfg, libVars, hVars, xVars, retKind, tVars, histVars>>

\* the context of the waiting call is cancelled or times out
CtxCancel ==
    /\ rPc = "waiting"
    /\ ctx = "live"
    /\ ctx' = "cancelled"
    /\ UNCHANGED <<cfg, libVars, hVars, xVars, rPc, retKind, calls, preCancelled, tVars,
                   histVars>>

\* variant: the receiving side empties the Handler's cache
DeliverClearsCache ==
    /\ hPc = "select"
    /\ rPc = "waiting"
    /\ retKind' = "result"
    /\ rPc' = "idle"
    /\ hPc' = "check"
    /\ delivered' = delivered + 1
    /\ passExch' = 0
    /\ lastTok' = result.Token
    /\ lastErr' = (result.Err # NoErr)
    /\ result' = NoResult
    /\ lastExp' = IF token = "" THEN 0 ELSE expiry
    /\ ctx' = "none"
    /\ preCancelled' = FALSE
    \* the loop starts over: the locals of the finished exchange are gone
    /\ retries' = 0
    /\ attempts' = 0
    /\ sleeps' = 0
    /\ resp' = NilResp
    /\ err' = NoErr
    /\ timeouts' = 0
    /\ cancelFuncs' = <<>>
    /\ token' = ""
    /\ UNCHANGED <<cfg, libVars, expiry, calls, tVars, produced, exitRecv>>

\* the Handler's send on resultCh meets retrieve's receive
Deliver ==
    /\ hPc = "select"
    /\ rPc = "waiting"
    /\ retKind' = "result"
    /\ rPc' = "idle"
    /\ hPc' = "check"
    /\ delivered' = delivered + 1
    /\ passExch' = 0
    /\ lastTok' = result.Token
    /\ lastErr' = (result.Err # NoErr)
    /\ result' = NoResult
    /\ lastExp' = IF token = "" THEN 0 ELSE expiry
    /\ ctx' = "none"
    /\ preCancelled' = FALSE
    \* the loop starts over: the locals of the finished exchange are gone
    /\ retries' = 0
    /\ attempts' = 0
    /\ sleeps' = 0
    /\ resp' = NilResp
    /\ err' = NoErr
    /\ timeouts' = 0
    /\ cancelFuncs' = <<>>
    /\ UNCHANGED <<cfg, libVars, token, expiry, calls, tVars, produced, exitRecv>>

\* ctx.Done() wins: a non-blocking send on exitCh, then the cancellation error
RetrieveCancelled ==
    /\ rPc = "waiting"
    /\ ctx = "cancelled"
    /\ retKind' = "cancelled"
    /\ rPc' = "idle"
    /\ lastExp' = 0
    /\ IF WatchingExit
         THEN hPc' = PcAfterExit /\ exitRecv' = TRUE
         ELSE UNCHANGED <<hPc, exitRecv>>
    /\ ctx' = "none"
    /\ preCancelled' = FALSE
    /\ UNCHANGED <<cfg, libVars, token, expiry, result, xVars, calls, tVars, produced,
                   delivered, passExch, lastTok, lastErr>>

\* time passes
Tick ==
    /\ ticks < MaxTicks
    /\ ticks' = ticks + 1
    /\ \E d \in {1, TimeToTokenExpiry} : now' = now + d
    /\ UNCHANGED <<cfg, libVars, hVars, xVars, rVars, histVars>>

Next ==
    \/ ServeCached
    \/ ExchangePassedIn
    \/ ExchangeInvalidVersion
    \/ ExchangeBegin
    \/ DoRetriesExhausted
    \/ AttemptRetry
    \/ AttemptReturn
    \/ RetrieveCall
    \/ CtxCancel
    \/ Deliver
    \/ RetrieveCancelled
    \/ Tick

Spec == Init /\ [][Next]_vars

\* the Handler goroutine and a retrieve call in progress are always scheduled;
\* the consumer is free never to call again, and time and cancellation are
\* the environment's
HandlerStep ==
    \/ ServeCached
    \/ ExchangePassedIn
    \/ ExchangeInvalidVersion
    \/ ExchangeBegin
    \/ DoRetriesExhausted
    \/ AttemptRetry
    \/ AttemptReturn

RetrieveStep == Deliver \/ RetrieveCancelled

FairSpec == Spec /\ WF_vars(HandlerStep) /\ WF_vars(RetrieveStep)

(***************************************************************************)
(* The library functions on their own: one call, no Handler running        *)
(***************************************************************************)
mainVars == <<cfg, hVars, xVars, rVars, tVars, histVars>>

LibInit ==
    /\ \E callSet \in LibCalls : libCall \in callSet
    /\ libRet = NoRet
    /\ cfg = [passedInToken |-> "", vendedServiceClient |-> TRUE,
              iamVersion |-> IAMVersionGLCS, clientID |-> "c1"]
    /\ hPc = "check" /\ token = "" /\ expiry = 0 /\ result = NoResult
    /\ retries = 0 /\ attempts = 0 /\ sleeps = 0 /\ resp = NilResp
    /\ err = NoErr /\ timeouts = 0 /\ cancelFuncs = <<>>
    /\ rPc = "idle" /\ ctx = "none" /\ retKind = "none" /\ calls = 0
    /\ preCancelled = FALSE
    /\ now = 0 /\ ticks = 0
    /\ produced = 0 /\ delivered = 0 /\ passExch = 0 /\ exitRecv = FALSE
    /\ lastTok = "" /\ lastErr = FALSE /\ lastExp = 0

\* httpclient.New, then the URLs an exchange of that Client posts to
CallNew ==
    /\ libCall.fn = "New" /\ libRet = NoRet
    /\ LET c == New(libCall.arg.url, FALSE, libCall.arg.vendedServiceClient,
                    libCall.arg.passedInToken)
       IN libRet' = [kind |-> "return",
                     client |-> c,
                     tenantURL |-> IdentityTokenURL(c.identityServiceURL),
                     glcsURL |-> generateParamsAndURL("c1", "s1", c.identityServiceURL,
                                                      IAMVersionGLCS).url,
                     glpURL |-> generateParamsAndURL("c1", "s1", c.identityServiceURL,
                                                     IAMVersionGLP).url]
    /\ UNCHANGED <<libCall, mainVars>>

CallGenerateParamsAndURL ==
    /\ libCall.fn = "generateParamsAndURL" /\ libRet = NoRet
    /\ LET a == libCall.arg
           r == generateParamsAndURL(a.clientID, a.clientSecret, a.url, a.iamVersion)
       IN libRet' = [kind |-> "return", params |-> r.params, url |-> r.url, err |-> r.err]
    /\ UNCHANGED <<libCall, mainVars>>

CallValidateIAMVersion ==
    /\ libCall.fn = "ValidateIAMVersion" /\ libRet = NoRet
    /\ LET r == ValidateIAMVersion(libCall.arg)
       IN libRet' = [kind |-> "return", warnings |-> r.warnings, errors |-> r.errors]
    /\ UNCHANGED <<libCall, mainVars>>

CallDecodeAccessToken ==
    /\ libCall.fn = "DecodeAccessToken" /\ libRet = NoRet
    /\ libRet' = DecodeAccessToken(libCall.arg)
    /\ UNCHANGED <<libCall, mainVars>>

\* NewProviderFunc(reg, pf) and one call of the function it returns
CallNewProviderFunc ==
    /\ libCall.fn = "NewProviderFunc" /\ libRet = NoRet
    /\ \E out \in NewProviderFunc(libCall.arg) :
          libRet' = [kind |-> IF out.panic THEN "panic" ELSE "return", out |-> out]
    /\ UNCHANGED <<libCall, mainVars>>

\* ProviderForMux(reg, pf)
CallProviderForMux ==
    /\ libCall.fn = "ProviderForMux" /\ libRet = NoRet
    /\ LET out == ProviderForMux(libCall.arg)
       IN libRet' = [kind |-> IF out.panic THEN "panic" ELSE "return", out |-> out]
    /\ UNCHANGED <<libCall, mainVars>>

\* GenerateToken(ctx, ...) enters DoRetries with the budget retryLimit
CallGenerateToken ==
    /\ libCall.fn = "GenerateToken" /\ libRet = NoRet
    /\ libRet' = ExchangeState(libCall.arg.ctx, retryLimit, 0, 0, 0, 0, <<>>, NilResp, NoErr)
    /\ UNCHANGED <<libCall, mainVars>>

\* the caller's ctx is cancelled, or its deadline passes, while DoRetries runs
CallerCtxEnds ==
    /\ libCall.fn = "GenerateToken" /\ libRet.kind = "running"
    /\ libRet.ctx = "live"
    /\ \E c \in {"cancelled", "pastDeadline"} : libRet' = [libRet EXCEPT !.ctx = c]
    /\ UNCHANGED <<libCall, mainVars>>

\* DoRetries: one attempt, after which it sleeps and goes on
GenerateTokenAttemptRetry ==
    /\ libCall.fn = "GenerateToken" /\ libRet.kind = "running"
    /\ libRet.retries # 0
    /\ \E o \in AttemptOutcomesUnder(libRet.ctx) :
          /\ DoRetriesDecision(o) = "retry"
          /\ LET dead == IF libRet.ctx = "live" THEN 0 ELSE 1
             IN libRet' = ExchangeState(libRet.ctx,
                                        sleepAndDecrementRetries(libRet.retries),
                                        libRet.attempts + 1, libRet.sleeps + 1,
                                        libRet.deadAttempts + dead,
                                        libRet.deadSleeps + dead,
                                        ReceiveBody(libRet.bodies, o.resp),
                                        o.resp, o.err)
    /\ UNCHANGED <<libCall, mainVars>>

\* DoRetries: one attempt, after which it returns, and GenerateToken after it
GenerateTokenAttemptReturn ==
    /\ libCall.fn = "GenerateToken" /\ libRet.kind = "running"
    /\ libRet.retries # 0
    /\ \E o \in AttemptOutcomesUnder(libRet.ctx) :
          /\ DoRetriesDecision(o) = "return"
          /\ LET dead == IF libRet.ctx = "live" THEN 0 ELSE 1
                 st == ExchangeState(libRet.ctx, libRet.retries,
                                     libRet.attempts + 1, libRet.sleeps,
                                     libRet.deadAttempts + dead, libRet.deadSleeps,
                                     CloseDeferred(ReceiveBody(libRet.bodies, o.resp), o.err),
                                     o.resp, o.err)
             IN libRet' = [st EXCEPT !.kind = "return"]
    /\ UNCHANGED <<libCall, mainVars>>

\* DoRetries: the budget is used up; GenerateToken returns the error
GenerateTokenExhausted ==
    /\ libCall.fn = "GenerateToken" /\ libRet.kind = "running"
    /\ libRet.retries = 0
    /\ libRet' = [libRet EXCEPT !.kind = "return",
                                !.err = ErrRetryLimitExceeded,
                                !.bodies = CloseDeferred(libRet.bodies, ErrRetryLimitExceeded)]
    /\ UNCHANGED <<libCall, mainVars>>

LibNext ==
    \/ CallNew
    \/ CallGenerateParamsAndURL
    \/ CallValidateIAMVersion
    \/ CallDecodeAccessToken
    \/ CallNewProviderFunc
    \/ CallProviderForMux
    \/ CallGenerateToken
    \/ CallerCtxEnds
    \/ GenerateTokenAttemptRetry
    \/ GenerateTokenAttemptReturn
    \/ GenerateTokenExhausted

LibSpec == LibInit /\ [][LibNext]_vars

(***************************************************************************)
(* Properties                                                              *)
(***************************************************************************)
\* a retrieve call returns in this step
RetrieveReturns == rPc = "waiting" /\ rPc' = "idle"
\* a Result passes over resultCh in this step
ResultReceived == delivered' = delivered + 1
\* one pass of the loop decides in this step whether to call the Client
LoopDecides == hPc = "check" /\ hPc' # "check"

\* C1: once the Handler has received a value on exitCh its loop has ended:
\* from then on it stays ended, no Result passes over resultCh and none is built.
C1_ExitIsFinal ==
    /\ [](exitRecv => hPc = "exited")
    /\ [][exitRecv =>
            /\ hPc' = "exited"
            /\ delivered' = delivered
            /\ produced' = produced
            /\ exitRecv']_vars

\* a retrieve call waits on a Handler that has received the exit signal
C1_Witness == exitRecv /\ hPc = "exited" /\ rPc = "waiting" /\ ctx = "live"

C3_PreCancelledReturnsCancel ==
    [][(RetrieveReturns /\ preCancelled) => retKind' = "cancelled"]_vars

\* C4: after a retrieve call has returned the cancellation error the Handler
\* loop eventually ends.
C4_CancelLeadsToExit == (retKind = "cancelled") ~> (hPc = "exited")

\* C5: guard window. (a) Two consecutive deliveries, the cached expiry of the
\* first still more than TimeToTokenExpiry seconds after the time of the
\* second: the same token string, no error, and no call of the Client between
\* them. (b) A pass of the loop calls the Client exactly once when no token is
\* cached or the cached expiry is at most TimeToTokenExpiry seconds away, and
\* not at all otherwise; never more than once between two deliveries.
C5_GuardWindow ==
    /\ [](passExch \in {0, 1})
    /\ [][/\ (ResultReceived /\ lastExp - now > TimeToTokenExpiry) =>
               /\ lastTok' = lastTok
               /\ ~lastErr /\ ~lastErr'
               /\ passExch = 0
          /\ LoopDecides =>
               /\ passExch = 0
               /\ passExch' = IF token = "" \/ expiry - now <= TimeToTokenExpiry
                                THEN 1 ELSE 0]_vars

\* the second of two calls is about to receive the token of the first, which
\* is still outside the guard window
C5_Witness ==
    /\ delivered = 1 /\ lastExp - now > TimeToTokenExpiry
    /\ hPc = "select" /\ rPc = "waiting" /\ passExch = 0
    /\ result.Token = lastTok

\* C6: a failed exchange is published as a Result with the error and the
\* empty token, after exactly one call of the Client; an exchange never ends
\* the loop or sends it round again without a Result; once the error Result
\* is received the loop is back at its top, and its next pass calls the
\* Client again.
C6_FailureIsPublished ==
    /\ []((hPc = "select" /\ result.Err # NoErr) =>
             (result.Token = "" /\ passExch = 1))
    /\ [][/\ (hPc = "exchange" /\ hPc' # "exchange") =>
               (hPc' = "select" /\ produced' = produced + 1)
          /\ (ResultReceived /\ result.Err # NoErr) =>
               (lastErr' /\ hPc' = "check")
          /\ (lastErr /\ LoopDecides) => passExch' = 1]_vars

\* an error Result was received and the next pass has made a new exchange,
\* which failed too
C6_Witness ==
    /\ lastErr /\ delivered = 1 /\ hPc = "select" /\ passExch = 1
    /\ attempts > 0 /\ result.Err # NoErr

\* C7: a retrieve call that returns a Result receives the one Result the
\* Handler is offering, built by the pass that followed the previous delivery:
\* at most one Result is outstanding, and the n-th Result received is the n-th
\* Result built.
C7_OneResultPerCall ==
    /\ [](produced - delivered \in {0, 1})
    /\ [](hPc = "select" => produced = delivered + 1)
    /\ [](delivered <= calls)
    /\ [][/\ (delivered' # delivered) =>
               /\ ResultReceived /\ RetrieveReturns
               /\ hPc = "select"
               /\ delivered' = produced
               /\ retKind' = "result"
               /\ lastTok' = result.Token
               /\ lastErr' = (result.Err # NoErr)
          /\ (RetrieveReturns /\ retKind' = "result") => ResultReceived
          /\ (produced' # produced) =>
               (produced' = produced + 1 /\ produced = delivered)]_vars

\* two Results were received and the third is on offer
C7_Witness == delivered = 2 /\ produced = 3 /\ hPc = "select"

\* C8: an exchange begins only at the top of the loop, with every Result built
\* so far received and no exit signal received; none is running otherwise.
C8_Backpressure ==
    /\ [](hPc = "exchange" => (produced = delivered /\ ~exitRecv))
    /\ [][(passExch' > passExch) =>
             (hPc = "check" /\ produced = delivered /\ ~exitRecv)]_vars

\* a second exchange is running, after the first Result was received
C8_Witness == hPc = "exchange" /\ delivered = 1 /\ attempts > 0

\* C9 as stated: every Result on offer is (non-empty token, nil error) or
\* (empty token, non-nil error).
C9_TokenXorError ==
    hPc = "select" =>
      \/ (result.Token # "" /\ result.Err = NoErr)
      \/ (result.Token = "" /\ result.Err # NoErr)

\* C9 as amended: a Result never carries both a token and an error; an
\* exchange that went to the identity service and returned no error got a 200
\* response with a JSON body and returns that body's access_token, which is
\* the empty string when the body has no access_token or an empty one.
C9_NeverTokenAndError ==
    hPc = "select" =>
      /\ ~(result.Token # "" /\ result.Err # NoErr)
      /\ (result.Err = NoErr /\ passExch = 1 /\ cfg.passedInToken = "") =>
            /\ attempts > 0
            /\ resp.StatusCode = StatusOK
            /\ resp.Body.json
            /\ result.Token =
                 (IF resp.Body.hasToken THEN resp.Body.access_token ELSE "")

\* an exchange got a 200 response without an access_token: (empty, nil)
C9_Witness ==
    /\ hPc = "select" /\ passExch = 1 /\ attempts > 0
    /\ result = Result("", NoErr) /\ ~resp.Body.hasToken

\* C10: with a passed-in token configured, no HTTP attempt is ever made, no
\* exchange is ever running, and every Result built or received is (that
\* token, nil), whatever the client id, the vended-service-client flag and
\* the IAM version are.
C10_PassedInToken ==
    cfg.passedInToken # "" =>
      /\ attempts = 0 /\ retries = 0 /\ sleeps = 0
      /\ hPc # "exchange"
      /\ (hPc = "select" => result = Result(cfg.passedInToken, NoErr))
      /\ (delivered > 0 => (lastTok = cfg.passedInToken /\ ~lastErr))

\* the passed-in token was returned twice by a vended service client with an
\* invalid IAM version
C10_Witness ==
    /\ cfg.passedInToken # "" /\ cfg.vendedServiceClient
    /\ cfg.iamVersion = "invalid" /\ cfg.clientID = "c2"
    /\ delivered = 2 /\ retKind = "result" /\ lastTok = cfg.passedInToken

\* C11: the cached token and its expiry change only in a step of the
\* Handler's loop that ends an exchange and publishes its Result; no step of
\* the retrieve adapter (a call, a receive, a cancellation, an exit signal)
\* changes them.
C11_SingleWriter ==
    [][/\ (token' # token \/ expiry' # expiry) =>
           /\ hPc = "exchange" /\ hPc' = "select"
           /\ produced' = produced + 1
           /\ rVars' = rVars
           /\ delivered' = delivered
           /\ exitRecv' = exitRecv
       /\ (rVars' # rVars \/ delivered' # delivered \/ exitRecv' # exitRecv) =>
           (token' = token /\ expiry' = expiry)]_vars

\* the adapter has received a Result, then returned a cancellation and had its
\* exit signal received, and the token of the first exchange is still cached
C11_Witness ==
    /\ calls = 2 /\ delivered = 1 /\ retKind = "cancelled" /\ exitRecv
    /\ token = "tokA" /\ lastTok = "tokA" /\ expiry > now

\* an attempt of the running exchange is made in this step
AttemptMade == hPc = "exchange" /\ attempts' = attempts + 1
\* ... and its deadline had elapsed when DoRetries looked
AttemptTimedOut == AttemptMade /\ timeouts' = timeouts + 1
\* ... or it had not, and the call returned a response and no error
AttemptAnswered == AttemptMade /\ ~AttemptTimedOut /\ err' = NoErr

\* C12: while DoRetries runs, attempts made = sleeps taken = budget used. An
\* attempt answered with 500, 429 or 502 is followed by one sleep and the
\* exchange goes on; an attempt answered with any other status, after k < 3
\* retries, ends DoRetries with that response and no error, k + 1 attempts
\* made and k sleeps taken. After 500, 500 a 200 ends it with 3 attempts and
\* 10 seconds slept.
C12_RetryThenReturn ==
    /\ [](hPc = "exchange" =>
             (attempts = sleeps /\ sleeps + retries = retryLimit /\ timeouts <= sleeps))
    /\ [][/\ (AttemptAnswered /\ resp'.StatusCode \in {500, 429, 502}) =>
               /\ hPc' = "exchange"
               /\ sleeps' = sleeps + 1
               /\ produced' = produced
          /\ (AttemptAnswered /\ resp'.StatusCode \notin {500, 429, 502}) =>
               /\ sleeps < 3
               /\ hPc' = "select"
               /\ attempts' = sleeps + 1
               /\ sleeps' = sleeps
               /\ result' = GenerateTokenResult(resp', NoErr, cfg.clientID)
          /\ (AttemptAnswered /\ timeouts = 0 /\ sleeps = 2
                 /\ resp = Response(500, ErrorText)
                 /\ resp'.StatusCode = 200) =>
               /\ attempts' = 3
               /\ sleeps' * RetrySleepSeconds = 10
               /\ hPc' = "select"]_vars

\* the third attempt of an exchange was answered 200 with a token
C12_Witness ==
    /\ hPc = "select" /\ attempts = 3 /\ sleeps = 2 /\ err = NoErr
    /\ resp.StatusCode = 200 /\ result = Result("tokA", NoErr)

\* C13: an exchange never makes more than 3 attempts. Once 3 attempts have
\* ended retryably the budget is 0, no attempt and no sleep follows, and the
\* exchange ends with ("", InternalError "Retry limit exceeded"); that error
\* is returned after exactly 3 attempts and 3 sleeps.
C13_RetryLimitExceeded ==
    /\ [](attempts <= 3)
    /\ []((hPc = "exchange" /\ attempts = 3) => retries = 0)
    /\ []((hPc = "select" /\ err = MkErr("InternalError", 0, "Retry limit exceeded")) =>
             /\ attempts = 3 /\ sleeps = 3
             /\ result = Result("", err))
    /\ [][(hPc = "exchange" /\ attempts = 3) =>
             /\ attempts' = attempts
             /\ sleeps' = sleeps
             /\ (hPc' # hPc =>
                   /\ hPc' = "select"
                   /\ result' =
                        Result("", MkErr("InternalError", 0, "Retry limit exceeded")))]_vars

\* the retry limit was exceeded by an exchange whose last attempt timed out
\* without a response
C13_Witness ==
    /\ hPc = "select" /\ attempts = 3 /\ sleeps = 3 /\ resp = NilResp
    /\ result = Result("", ErrRetryLimitExceeded)

\* C14: attempts and budget stay within 0..3 and add up to 3 while an
\* exchange runs; the budget changes only by being set to 3 when an exchange
\* begins, by going down by exactly one with a retry, and by being dropped
\* with the finished exchange; every step of a running exchange makes an
\* attempt or ends the exchange.
C14_BudgetBounded ==
    /\ [](attempts \in 0..3 /\ retries \in 0..3 /\ sleeps \in 0..3)
    /\ [](hPc = "exchange" => attempts + retries = 3)
    /\ [](hPc = "select" => attempts <= 3)
    /\ [][/\ (retries' # retries) =>
               \/ (hPc = "check" /\ hPc' = "exchange" /\ retries' = 3)
               \/ /\ AttemptMade
                  /\ hPc' = "exchange"
                  /\ retries' = retries - 1
                  /\ sleeps' = sleeps + 1
               \/ (hPc = "select" /\ hPc' = "check" /\ retries' = 0)
          /\ (hPc = "exchange" /\ xVars' # xVars) =>
               (AttemptMade \/ (retries = 0 /\ hPc' = "select"))]_vars

\* C14, termination: a running exchange ends
C14_ExchangeTerminates == (hPc = "exchange") ~> (hPc = "select")

\* an exchange ended at its third attempt with budget left
C14_Witness ==
    /\ hPc = "select" /\ attempts = 3 /\ retries = 1 /\ err.kind = "Transport"

\* C15 as stated: an attempt whose deadline had elapsed is followed by a
\* sleep, a decrement of the budget and another attempt.
C15_TimeoutThenAnotherAttempt ==
    [][AttemptTimedOut =>
         /\ sleeps' = sleeps + 1
         /\ retries' = retries - 1
         /\ hPc' = "exchange"
         /\ retries' > 0]_vars

\* C15 as amended: an attempt whose deadline had elapsed is followed by a
\* sleep and a decrement of the budget, its error is never returned, and the
\* exchange goes on: with another attempt on a new sub-context while budget
\* is left, with "Retry limit exceeded" and no attempt when none is left.
C15_TimeoutIsRetried ==
    /\ [](result.Err.kind # "DeadlineExceeded")
    /\ [][/\ AttemptTimedOut =>
               /\ sleeps' = sleeps + 1
               /\ retries' = retries - 1
               /\ hPc' = "exchange"
               /\ produced' = produced
               /\ Len(cancelFuncs') = Len(cancelFuncs) + 1
          /\ (hPc = "exchange" /\ timeouts > 0 /\ xVars' # xVars) =>
               IF retries > 0
                 THEN AttemptMade /\ Len(cancelFuncs') = Len(cancelFuncs) + 1
                 ELSE /\ attempts' = attempts
                      /\ hPc' = "select"
                      /\ result'.Err.text = "Retry limit exceeded"]_vars

\* the first attempt timed out, the second was made and answered 429
C15_Witness ==
    /\ hPc = "exchange" /\ timeouts = 1 /\ attempts = 2 /\ sleeps = 2
    /\ resp.StatusCode = 429

\* C16: an attempt that fails with an error, its deadline not elapsed, ends
\* the exchange in the same step: the Result is ("", that error), no sleep is
\* taken, the budget is not touched, and no attempt follows.
C16_TransportErrorReturns ==
    /\ []((hPc = "select" /\ err.kind \in {"BuildRequest", "Transport"}) =>
             (result = Result("", err) /\ attempts = sleeps + 1))
    /\ [][/\ (AttemptMade /\ ~AttemptTimedOut /\ err' # NoErr) =>
               /\ err'.kind \in {"BuildRequest", "Transport"}
               /\ hPc' = "select"
               /\ result' = Result("", err')
               /\ sleeps' = sleeps
               /\ retries' = retries
          /\ (hPc = "select") => attempts' \in {attempts, 0}]_vars

\* the second attempt of an exchange could not build its request
C16_Witness ==
    /\ hPc = "select" /\ err.kind = "BuildRequest" /\ attempts = 2 /\ sleeps = 1

\* C17: an attempt answered with a status other than 200, 500, 429 and 502
\* ends the exchange in the same step, with no sleep and the budget not
\* touched; the Result has the empty token and the error the status maps to.
C17_OtherStatusTerminal ==
    /\ []((hPc = "select" /\ err = NoErr /\ resp.StatusCode \notin {0, 200}) =>
             /\ result.Token = "" /\ result.Err # NoErr
             /\ attempts = sleeps + 1)
    /\ [][/\ (AttemptAnswered /\ resp'.StatusCode \notin {200, 500, 429, 502}) =>
               /\ hPc' = "select"
               /\ sleeps' = sleeps
               /\ retries' = retries
               /\ result'.Token = ""
               /\ result'.Err # NoErr
               /\ result'.Err = ManageHTTPErrorCodes(resp', cfg.clientID)
          /\ (hPc = "select") => (attempts' \in {attempts, 0} /\ sleeps' \in {sleeps, 0})]_vars

\* the second attempt of an exchange was answered 401
C17_Witness ==
    /\ hPc = "select" /\ resp.StatusCode = 401 /\ attempts = 2 /\ sleeps = 1
    /\ result.Err.kind = "Unauthorized"

\* the statuses the mapping is tried on
MappedStatuses == {200, 201, 302, 400, 401, 403, 404, 418, 429, 500, 502, 503}

\* C18 as stated, for the response an exchange ended with: 200 gives no error,
\* 400 BadRequest with the body text, 401 Unauthorized and 403 Forbidden with
\* the client id, any other status InternalError with the status code.
C18_StatusMapping ==
    (hPc = "select" /\ err = NoErr /\ attempts > 0) =>
      LET e == ManageHTTPErrorCodes(resp, cfg.clientID) IN
        CASE resp.StatusCode = 200 -> e = NoErr
          [] resp.StatusCode = 400 ->
               e.kind = "BadRequest" /\ e.text = resp.Body.text
          [] resp.StatusCode = 401 -> e.kind = "Unauthorized" /\ e.text = cfg.clientID
          [] resp.StatusCode = 403 -> e.kind = "Forbidden" /\ e.text = cfg.clientID
          [] OTHER -> e.kind = "InternalError" /\ e.code = resp.StatusCode

\* the mapping on every status tried, bodies that can be read
C18_MappingOnReadableBodies ==
    \A st \in MappedStatuses, id \in {"c1", "c2"} :
        LET e == ManageHTTPErrorCodes(Response(st, ErrorText), id) IN
          CASE st = 200 -> e = NoErr
            [] st = 400 -> e.kind = "BadRequest" /\ e.text = ErrorText.text
            [] st = 401 -> e.kind = "Unauthorized" /\ e.text = id
            [] st = 403 -> e.kind = "Forbidden" /\ e.text = id
            [] OTHER -> e.kind = "InternalError" /\ e.code = st

\* C18 as amended: as stated, but a 400 whose body cannot be read gives the
\* error of the read instead of BadRequest; and the error of a terminal
\* status is the error of the Result.
C18_StatusMappingReadable ==
    /\ C18_MappingOnReadableBodies
    /\ (hPc = "select" /\ err = NoErr /\ attempts > 0) =>
         LET e == ManageHTTPErrorCodes(resp, cfg.clientID) IN
           /\ CASE resp.StatusCode = 200 -> e = NoErr
                [] resp.StatusCode = 400 ->
                     IF resp.Body.readable
                       THEN e.kind = "BadRequest" /\ e.text = resp.Body.text
                       ELSE e.kind = "ReadBody"
                [] resp.StatusCode = 401 ->
                     e.kind = "Unauthorized" /\ e.text = cfg.clientID
                [] resp.StatusCode = 403 ->
                     e.kind = "Forbidden" /\ e.text = cfg.clientID
                [] OTHER -> e.kind = "InternalError" /\ e.code = resp.StatusCode
           /\ (resp.StatusCode # 200 => result = Result("", e))

\* an exchange ended with a 400 whose body could not be read
C18_Witness ==
    /\ hPc = "select" /\ resp = Response(400, BrokenBody)
    /\ result.Err.kind = "ReadBody" /\ attempts = 1

\* C19 as stated: an attempt answered with a 5xx status or 429 is followed by
\* a sleep and the exchange goes on.
C19_Every5xxRetried ==
    [][(AttemptAnswered /\ (resp'.StatusCode \in 500..599 \/ resp'.StatusCode = 429)) =>
         (hPc' = "exchange" /\ sleeps' = sleeps + 1)]_vars

\* C19 as amended: an attempt is followed by a sleep, the exchange going on,
\* exactly when it was answered 500, 429 or 502 (or timed out); an exchange
\* whose last response is one of these ends only with "Retry limit exceeded"
\* after 3 attempts; any other 5xx status ends the exchange at the attempt
\* it answers, the first included, with InternalError naming the status.
C19_Only500And502Retried ==
    /\ []((hPc = "select" /\ resp.StatusCode \in {500, 429, 502}) =>
             /\ attempts = 3
             /\ result.Err.kind = "InternalError"
             /\ result.Err.text = "Retry limit exceeded")
    /\ []((hPc = "select" /\ err = NoErr /\ resp.StatusCode \in (500..599) \ {500, 502}) =>
             /\ result.Err.kind = "InternalError"
             /\ result.Err.code = resp.StatusCode
             /\ attempts = sleeps + 1)
    /\ [][AttemptAnswered =>
             ((hPc' = "exchange" /\ sleeps' = sleeps + 1)
                <=> resp'.StatusCode \in {500, 429, 502})]_vars

\* the first attempt of an exchange was answered 503 and ended it
C19_Witness ==
    /\ hPc = "select" /\ resp.StatusCode = 503 /\ attempts = 1 /\ sleeps = 0
    /\ result.Err = MkErr("InternalError", 503, "Unexpected status code")

\* C20: every attempt adds one cancel function to the slice, and when the
\* exchange has returned, whatever its outcome, every one of them has been
\* invoked: as many as attempts were made.
C20_CancelFuncsInvoked ==
    /\ Len(cancelFuncs) = attempts
    /\ (hPc = "select" => \A i \in DOMAIN cancelFuncs : cancelFuncs[i])
    /\ (hPc = "exchange" => \A i \in DOMAIN cancelFuncs : ~cancelFuncs[i])

\* an exchange ended at its second attempt with a body that is not JSON
C20_Witness ==
    /\ hPc = "select" /\ result.Err.kind = "Decode" /\ attempts = 2
    /\ cancelFuncs = <<TRUE, TRUE>>

\* the longest the attempts and sleeps made so far can have taken, seconds
WorstCaseSeconds == attempts * AttemptDeadlineSeconds + sleeps * RetrySleepSeconds

\* C21: with attempts of at most 3 seconds and sleeps of 5, the retry loop
\* has taken at most 24 seconds in every state; it has taken 24 only when 3
\* attempts were retried and the budget is used up, the exchange ending in
\* "Retry limit exceeded"; an exchange that ends any other way has taken at
\* most 19.
C21_WithinTwentyFourSeconds ==
    /\ WorstCaseSeconds <= 24
    /\ (WorstCaseSeconds = 24 =>
          /\ attempts = 3 /\ sleeps = 3 /\ retries = 0
          /\ (hPc # "exchange" => result.Err.text = "Retry limit exceeded"))
    /\ ((hPc # "exchange" /\ result.Err.text # "Retry limit exceeded") =>
          WorstCaseSeconds <= 19)

\* an exchange answered 502 three times has ended
C21_Witness ==
    /\ hPc = "select" /\ WorstCaseSeconds = 24 /\ resp.StatusCode = 502
    /\ result.Err.text = "Retry limit exceeded"

C22_NoRequestBuilt ==
    \A v \in VersionStrings \ {"glcs", "glp"}, u \in Urls, c \in {"c1", "c2"} :
        generateParamsAndURL(c, "s1", u, v) =
          [params |-> {}, url |-> <<>>, err |-> MkErr("Config", 0, "invalid IAM version")]

C24_SubCasesByVersion ==
    \A u \in Urls :
       LET glcs == generateParamsAndURL("c1", "s1", u, "glcs")
           glp == generateParamsAndURL("c1", "s1", u, "glp")
       IN /\ glcs.url # glp.url
          /\ glcs.params # glp.params

LibCallDone(fn) == libCall.fn = fn /\ libRet.kind # "none"

\* C23: for "glcs" and "glp" generateParamsAndURL returns no error and
\* exactly the parameters client_id, client_secret and
\* grant_type=client_credentials, one value each, with scope=hpe-tenant if and
\* only if the version is "glcs"; the URL is <identityURL>/v1/token for
\* "glcs" and the identity URL itself for "glp".
C23_ParamsAndURL ==
    (LibCallDone("generateParamsAndURL") /\ libCall.arg.iamVersion \in {"glcs", "glp"}) =>
      LET a == libCall.arg
          glcs == a.iamVersion = "glcs"
      IN /\ libRet.err = NoErr
         /\ {kv[1] : kv \in libRet.params} =
              {"client_id", "client_secret", "grant_type"}
                \cup (IF glcs THEN {"scope"} ELSE {})
         /\ Cardinality(libRet.params) = (IF glcs THEN 4 ELSE 3)
         /\ <<"client_id", a.clientID>> \in libRet.params
         /\ <<"client_secret", a.clientSecret>> \in libRet.params
         /\ <<"grant_type", "client_credentials">> \in libRet.params
         /\ (<<"scope", "hpe-tenant">> \in libRet.params) <=> glcs
         /\ libRet.url =
              (IF glcs THEN a.url \o <<"/", "v", "1", "/", "t", "o", "k", "e", "n">>
                       ELSE a.url)

\* "glp" with the URL "h/": three parameters, the URL unchanged
C23_Witness ==
    /\ LibCallDone("generateParamsAndURL")
    /\ libCall.arg.iamVersion = "glp" /\ libCall.arg.url = <<"h", "/">>
    /\ libCall.arg.clientID = "c2"
    /\ libRet.url = <<"h", "/">> /\ Cardinality(libRet.params) = 3

\* C25 as stated: no call of DecodeAccessToken ends the process; each
\* returns to its caller, with an error when the token is malformed.
C25_NoProcessExit ==
    LibCallDone("DecodeAccessToken") =>
      /\ libRet.kind = "return"
      /\ (libCall.arg.form # "compact" \/ libCall.arg.payload # "claims") =>
            libRet.err # NoErr

\* the data-source names, resource names that reg[j] repeats, and whether its
\* name is a schema key already
RegDsRepeat(reg, j) == reg[j].ds \cap UNION {reg[i].ds : i \in 1..(j - 1)}
RegResRepeat(reg, j) == reg[j].res \cap UNION {reg[i].res : i \in 1..(j - 1)}
RegNameRepeat(reg, j) ==
    /\ reg[j].entry
    /\ \/ reg[j].name \in SchemaKeys
       \/ \E i \in 1..(j - 1) : reg[i].entry /\ reg[i].name = reg[j].name
RegOffends(reg, j) ==
    RegDsRepeat(reg, j) # {} \/ RegResRepeat(reg, j) # {} \/ RegNameRepeat(reg, j)

\* C26 as stated: when two services supply the same resource name, or the
\* same data-source name, the call panics, the panic is a resource-name or a
\* data-source-name one, and it names a key two services supply and the
\* later of the two.
C26_RepeatedKeyPanics ==
    LibCallDone("NewProviderFunc") =>
      LET reg == libCall.arg
          out == libRet.out
      IN (\E j \in DOMAIN reg : RegDsRepeat(reg, j) \cup RegResRepeat(reg, j) # {}) =>
           /\ libRet.kind = "panic"
           /\ \E j \in DOMAIN reg :
                /\ out.service = reg[j].name
                /\ \/ out.what = "data-source name" /\ out.key \in RegDsRepeat(reg, j)
                   \/ out.what = "resource name" /\ out.key \in RegResRepeat(reg, j)

\* C26 as amended: when two services supply the same resource name, or the
\* same data-source name, the call panics and returns no provider. The panic
\* is raised at the first registration in list order that repeats a
\* data-source name, repeats a resource name or, having a schema entry, has a
\* name that is a schema key already; it names that registration; it is the
\* data-source panic for one of its repeated data-source names if it has
\* one, else the resource panic for one of its repeated resource names if it
\* has one, else the service-name panic. When no registration offends, a
\* provider with all the resources, data sources and names is returned.
C26_FirstRepeatPanics ==
    LibCallDone("NewProviderFunc") =>
      LET reg == libCall.arg
          out == libRet.out
          offenders == {j \in DOMAIN reg : RegOffends(reg, j)}
      IN /\ (\E j \in DOMAIN reg : RegDsRepeat(reg, j) \cup RegResRepeat(reg, j) # {}) =>
              libRet.kind = "panic" /\ out.resources = {} /\ out.dataSources = {}
         /\ IF offenders = {}
              THEN /\ libRet.kind = "return"
                   /\ out.resources = UNION {reg[i].res : i \in DOMAIN reg}
                   /\ out.dataSources = UNION {reg[i].ds : i \in DOMAIN reg}
                   /\ out.schema =
                        SchemaKeys \cup {reg[i].name : i \in {n \in DOMAIN reg : reg[n].entry}}
              ELSE LET j == CHOOSE n \in offenders : \A m \in offenders : n <= m
                   IN /\ libRet.kind = "panic"
                      /\ out.service = reg[j].name
                      /\ IF RegDsRepeat(reg, j) # {}
                           THEN out.what = "data-source name" /\ out.key \in RegDsRepeat(reg, j)
                         ELSE IF RegResRepeat(reg, j) # {}
                           THEN out.what = "resource name" /\ out.key \in RegResRepeat(reg, j)
                         ELSE out.what = "service name" /\ out.key = reg[j].name

\* s2 repeats the data-source name k1 of s1, and one of its two repeated
\* resource names as well: the panic is the data-source one and names s2
C26_Witness ==
    /\ LibCallDone("NewProviderFunc")
    /\ Len(libCall.arg) = 2
    /\ libCall.arg[1].name = "s1" /\ libCall.arg[2].name = "s2"
    /\ libCall.arg[1].res = {"k1", "k2"} /\ libCall.arg[2].res = {"k1", "k2"}
    /\ libRet.kind = "panic"
    /\ libRet.out = Panic("data-source name", "k1", "s2")

\* C27 as stated: when two registrations with a schema entry share a name,
\* the call panics with the service-name panic for that name.
C27_SharedNamePanicsWithName ==
    LibCallDone("NewProviderFunc") =>
      LET reg == libCall.arg
      IN \A i, j \in DOMAIN reg :
           (i < j /\ reg[i].entry /\ reg[j].entry /\ reg[i].name = reg[j].name) =>
              /\ libRet.kind = "panic"
              /\ libRet.out.what = "service name"
              /\ libRet.out.key = reg[j].name

\* C27 as amended: when two registrations with a schema entry share a name
\* the call panics. The panic is "service name N is repeated", naming the
\* second, when no registration before the second offends and the second
\* repeats no data-source and no resource name, in particular when neither
\* supplies any; when the second repeats a data-source or a resource name
\* and nothing before it offends, the panic is that data-source or resource
\* panic instead.
C27_SharedNamePanics ==
    LibCallDone("NewProviderFunc") =>
      LET reg == libCall.arg
          out == libRet.out
      IN \A i, j \in DOMAIN reg :
           (i < j /\ reg[i].entry /\ reg[j].entry /\ reg[i].name = reg[j].name) =>
              /\ libRet.kind = "panic"
              /\ (\A n \in 1..(j - 1) : ~RegOffends(reg, n)) =>
                    IF RegDsRepeat(reg, j) \cup RegResRepeat(reg, j) = {}
                      THEN out = Panic("service name", reg[j].name, reg[j].name)
                      ELSE /\ out.what \in {"data-source name", "resource name"}
                           /\ out.service = reg[j].name

\* two registrations named s1 with a schema entry and nothing else
C27_Witness ==
    /\ LibCallDone("NewProviderFunc")
    /\ Len(libCall.arg) = 2
    /\ \A i \in 1..2 :
          /\ libCall.arg[i].name = "s1" /\ libCall.arg[i].entry
          /\ libCall.arg[i].res = {} /\ libCall.arg[i].ds = {}
    /\ libRet.out = Panic("service name", "s1", "s1")

\* C28: ValidateIAMVersion returns no error exactly for the strings "glcs"
\* and "glp", at least one error for every other string and for every value
\* that is not a string, and never a warning.
C28_ValidateIAMVersion ==
    LibCallDone("ValidateIAMVersion") =>
      /\ libRet.kind = "return"
      /\ Len(libRet.errors) = 0 <=>
            (libCall.arg.type = "string" /\ libCall.arg.s \in {"glcs", "glp"})
      /\ Len(libRet.errors) <= 1
      /\ Len(libRet.warnings) = 0

\* the bytes "glcs", not a string, are turned down
C28_Witness ==
    /\ LibCallDone("ValidateIAMVersion")
    /\ libCall.arg = Value("bytes", "glcs")
    /\ Len(libRet.errors) = 1

\* C30: the URL New stores is its argument less all its trailing slashes:
\* a prefix of it, followed in the argument by slashes only, and not ending
\* in a slash; stripping it again changes nothing; the other fields are the
\* arguments; the tenant-credential exchange and the "glcs" OAuth2 exchange
\* post to the stored URL followed by /v1/token, the "glp" one to the stored
\* URL.
C30_TrailingSlashesStripped ==
    LibCallDone("New") =>
      LET u == libCall.arg.url
          c == libRet.client
          stored == c.identityServiceURL
          path == <<"/", "v", "1", "/", "t", "o", "k", "e", "n">>
      IN /\ Len(stored) <= Len(u)
         /\ SubSeq(u, 1, Len(stored)) = stored
         /\ \A i \in (Len(stored) + 1)..Len(u) : u[i] = "/"
         /\ (Len(stored) > 0 => stored[Len(stored)] # "/")
         /\ New(stored, c.iamInsecure, c.vendedServiceClient, c.passedInToken) = c
         /\ c.passedInToken = libCall.arg.passedInToken
         /\ c.vendedServiceClient = libCall.arg.vendedServiceClient
         /\ libRet.tenantURL = stored \o path
         /\ libRet.glcsURL = stored \o path
         /\ libRet.glpURL = stored

\* "h//" is stored as "h"
C30_Witness ==
    /\ LibCallDone("New")
    /\ libCall.arg.url = <<"h", "/", "/">>
    /\ libRet.client.identityServiceURL = <<"h">>
    /\ Len(libRet.tenantURL) = 10

C34_ResponseNeverDiscarded ==
    [][(AttemptMade /\ err' = NoErr /\ resp'.StatusCode = StatusOK) =>
        (hPc' = "select" /\ sleeps' = sleeps /\ retries' = retries)]_vars

\* C36 as stated: every sleep is followed by another attempt, so an exchange
\* that has ended has slept fewer times than it made attempts, and one that
\* ended in "Retry limit exceeded" made 3 attempts and slept twice.
C36_NoSleepAfterLastAttempt ==
    (hPc # "exchange" /\ attempts > 0) =>
      /\ sleeps < attempts
      /\ (result.Err.text = "Retry limit exceeded" => (attempts = 3 /\ sleeps = 2))

\* C36 as amended: every retried attempt is followed by a sleep, the one that
\* uses up the last unit of budget included: while DoRetries runs it has
\* slept once per attempt made; an exchange that ended in "Retry limit
\* exceeded" made 3 attempts and slept 3 times, the last sleep followed by
\* the return and not by an attempt; an exchange that ended otherwise after n
\* attempts slept n - 1 times, each time before another attempt.
C36_SleepAfterEveryRetry ==
    /\ sleeps <= attempts
    /\ (hPc = "exchange" => (sleeps = attempts /\ retries = retryLimit - sleeps))
    /\ (hPc # "exchange" /\ attempts > 0) =>
         IF result.Err.text = "Retry limit exceeded"
           THEN attempts = retryLimit /\ sleeps = retryLimit /\ retries = 0
           ELSE sleeps = attempts - 1

\* three attempts answered 429: three sleeps, then the retry-limit error
C36_Witness ==
    /\ hPc = "select" /\ attempts = 3 /\ sleeps = 3
    /\ resp.StatusCode = StatusTooManyRequests
    /\ result.Err.text = "Retry limit exceeded"

\* the names of the services of reg that have a schema entry
RegEntryNames(reg) == {reg[i].name : i \in {n \in DOMAIN reg : reg[n].entry}}

\* C31: the list ProviderForMux returns holds, in registration order, one
\* provider for each service whose resource map or data-source map is not
\* nil, an empty map included, with that service's maps, and none for a
\* service with both nil; every provider has the same schema: the built-in
\* keys and the name of every service with a schema entry, those without a
\* provider included.
C31_MuxProviders ==
    (LibCallDone("ProviderForMux") /\ libRet.kind = "return") =>
      LET reg == libCall.arg
          ps == libRet.out.providers
          idx == {i \in DOMAIN reg : ~reg[i].resNil \/ ~reg[i].dsNil}
      IN /\ Len(ps) = Cardinality(idx)
         /\ \E f \in [DOMAIN ps -> idx] :
               /\ \A a, b \in DOMAIN ps : a < b => f[a] < f[b]
               /\ \A n \in DOMAIN ps :
                     /\ ps[n].service = reg[f[n]].name
                     /\ ps[n].resources = reg[f[n]].res
                     /\ ps[n].resNil = reg[f[n]].resNil
                     /\ ps[n].dataSources = reg[f[n]].ds
                     /\ ps[n].dsNil = reg[f[n]].dsNil
         /\ \A n \in DOMAIN ps : ps[n].schema = SchemaKeys \cup RegEntryNames(reg)

\* s1 has a schema entry and two nil maps, s2 an empty resource map that is
\* not nil: one provider, for s2, with s1 in its schema
C31_Witness ==
    /\ LibCallDone("ProviderForMux")
    /\ Len(libCall.arg) = 2
    /\ libCall.arg[1] = [name |-> "s1", entry |-> TRUE, ds |-> {}, dsNil |-> TRUE,
                          res |-> {}, resNil |-> TRUE]
    /\ libCall.arg[2] = [name |-> "s2", entry |-> FALSE, ds |-> {}, dsNil |-> TRUE,
                          res |-> {}, resNil |-> FALSE]
    /\ Len(libRet.out.providers) = 1
    /\ libRet.out.providers[1].service = "s2"
    /\ "s1" \in libRet.out.providers[1].schema

\* the provider function of NewProviderFunc panics on the list reg
FuncPanics(reg) == \A o \in NewProviderFunc(AsRegistration(reg)) : o.panic

\* C37 as stated: ProviderForMux panics on a list exactly when the provider
\* function of NewProviderFunc panics on it.
C37_SameListsAccepted ==
    LibCallDone("ProviderForMux") =>
      (libRet.kind = "panic" <=> FuncPanics(libCall.arg))

\* C37 as amended: ProviderForMux panics exactly on the lists in which a
\* service with a schema entry has a name that is a schema key already; the
\* provider function of NewProviderFunc panics on those and also on the
\* lists in which a resource name or a data-source name is repeated. So a
\* panic of ProviderForMux implies one of the provider function, and a list
\* only ProviderForMux accepts repeats a resource or data-source name.
C37_MuxPanicsImplyFuncPanics ==
    LibCallDone("ProviderForMux") =>
      LET reg == libCall.arg IN
      /\ libRet.kind = "panic" <=> \E j \in DOMAIN reg : RegNameRepeat(reg, j)
      /\ FuncPanics(reg) <=> \E j \in DOMAIN reg : RegOffends(reg, j)
      /\ libRet.kind = "panic" => FuncPanics(reg)
      /\ (FuncPanics(reg) /\ libRet.kind = "return") =>
            \E j \in DOMAIN reg : RegDsRepeat(reg, j) \cup RegResRepeat(reg, j) # {}

\* s1 and s2 both supply the resource k1: ProviderForMux returns two
\* providers, the provider function panics
C37_Witness ==
    /\ LibCallDone("ProviderForMux")
    /\ Len(libCall.arg) = 2
    /\ libCall.arg[1].name = "s1" /\ libCall.arg[2].name = "s2"
    /\ libCall.arg[1].res = {"k1"} /\ libCall.arg[2].res = {"k1"}
    /\ libRet.kind = "return" /\ Len(libRet.out.providers) = 2
    /\ FuncPanics(libCall.arg)

\* some service of reg with a schema entry is named like a built-in key
RegNamedLikeBuiltin(reg) ==
    \E j \in DOMAIN reg : reg[j].entry /\ reg[j].name \in SchemaKeys

\* no service of reg has written its schema entry over a built-in key
RegBuiltinKept(reg, schema) ==
    /\ SchemaKeys \subseteq schema
    /\ \A j \in DOMAIN reg : reg[j].entry => reg[j].name \notin SchemaKeys

\* C39 as stated: when a service with a schema entry is named like a
\* built-in key, both calls panic with the service-name panic for such a
\* name; a provider that is returned has the built-in keys untouched.
C39_BuiltinNamePanicsWithName ==
    (LibCallDone("NewProviderFunc") \/ LibCallDone("ProviderForMux")) =>
      LET reg == libCall.arg
          out == libRet.out
      IN /\ RegNamedLikeBuiltin(reg) =>
              /\ libRet.kind = "panic"
              /\ out.what = "service name"
              /\ \E j \in DOMAIN reg :
                    reg[j].entry /\ reg[j].name \in SchemaKeys /\ out.key = reg[j].name
         /\ (libRet.kind = "return" /\ libCall.fn = "NewProviderFunc") =>
              RegBuiltinKept(reg, out.schema)
         /\ (libRet.kind = "return" /\ libCall.fn = "ProviderForMux") =>
              \A n \in DOMAIN out.providers : RegBuiltinKept(reg, out.providers[n].schema)

\* C39 as amended: when a service with a schema entry is named like a
\* built-in key, both calls panic and return no provider; the panic is the
\* first one met in list order, so it is the service-name panic for that
\* service when that service is the first to offend and, in the provider
\* function, repeats no data-source and no resource name. In every provider
\* that is returned the built-in keys are present and no schema entry has
\* been stored under one.
C39_BuiltinKeysKept ==
    (LibCallDone("NewProviderFunc") \/ LibCallDone("ProviderForMux")) =>
      LET reg == libCall.arg
          out == libRet.out
          func == libCall.fn = "NewProviderFunc"
          offenders == {j \in DOMAIN reg :
                          IF func THEN RegOffends(reg, j) ELSE RegNameRepeat(reg, j)}
      IN /\ RegNamedLikeBuiltin(reg) =>
              /\ libRet.kind = "panic"
              /\ LET j == CHOOSE n \in offenders : \A m \in offenders : n <= m
                 IN IF func /\ RegDsRepeat(reg, j) \cup RegResRepeat(reg, j) # {}
                      THEN out.what \in {"data-source name", "resource name"}
                      ELSE out.what = "service name" /\ out.key = reg[j].name
         /\ (libRet.kind = "return" /\ func) => RegBuiltinKept(reg, out.schema)
         /\ (libRet.kind = "return" /\ ~func) =>
              \A n \in DOMAIN out.providers : RegBuiltinKept(reg, out.providers[n].schema)

\* s2 supplies the resource k1 that the service named iam_token repeats:
\* the provider function panics, with the resource panic
C39_Witness ==
    /\ LibCallDone("NewProviderFunc")
    /\ Len(libCall.arg) = 2
    /\ libCall.arg[1] = [name |-> "s2", entry |-> FALSE, ds |-> {}, res |-> {"k1"}]
    /\ libCall.arg[2] = [name |-> "iam_token", entry |-> TRUE, ds |-> {}, res |-> {"k1"}]
    /\ libRet.out = Panic("resource name", "k1", "iam_token")

\* C38: ValidateIAMVersion and generateParamsAndURL agree on every string:
\* a string ValidateIAMVersion has returned no error for is one
\* generateParamsAndURL returns no error for, whatever its other arguments,
\* and a string generateParamsAndURL has returned no error for is one
\* ValidateIAMVersion accepts; and the other way round.
C38_ValidationAgreesWithRequest ==
    /\ (LibCallDone("ValidateIAMVersion") /\ libCall.arg.type = "string") =>
         \A c \in {"c1", "c2"}, u \in Urls :
            (Len(libRet.errors) = 0) <=>
               (generateParamsAndURL(c, "s1", u, libCall.arg.s).err = NoErr)
    /\ LibCallDone("generateParamsAndURL") =>
         ((libRet.err = NoErr) <=>
            (Len(ValidateIAMVersion(Value("string", libCall.arg.iamVersion)).errors) = 0))

\* "GLCS" is turned down by generateParamsAndURL, as it is by validation
C38_Witness ==
    /\ LibCallDone("generateParamsAndURL")
    /\ libCall.arg.iamVersion = "GLCS" /\ libCall.arg.url = <<"h">>
    /\ libRet.err = MkErr("Config", 0, "invalid IAM version")
    /\ Len(ValidateIAMVersion(Value("string", "GLCS")).errors) = 1

\* a call of GenerateToken is in DoRetries, or has returned
ExchangeCalled == libCall.fn = "GenerateToken" /\ libRet.kind \in {"running", "return"}

\* C33 as stated: once the caller's context is cancelled or past its
\* deadline the exchange makes at most one attempt and takes no sleep, and
\* when it returns after an attempt whose request was built it returns the
\* context error.
C33_CallerContextEndsExchange ==
    ExchangeCalled =>
      /\ libRet.deadAttempts <= 1
      /\ libRet.deadSleeps = 0
      /\ (libRet.kind = "return" /\ libRet.deadAttempts > 0
            /\ libRet.err.kind # "BuildRequest") =>
           libRet.err.kind \in {"Canceled", "DeadlineExceeded"}

\* C35 as stated: when the exchange has returned, the body of every response
\* it received is closed.
C35_BodiesClosed ==
    (libCall.fn = "GenerateToken" /\ libRet.kind = "return") =>
      \A i \in DOMAIN libRet.bodies : libRet.bodies[i]

====
